---- MODULE Spec2Model ----
(***************************************************************************)
(* Model of cartographer's RealTimeCorrelativeScanMatcher2D                *)
(* (real_time_correlative_scan_matcher_2d.cc): the exhaustive enumeration  *)
(* of search candidates, the two grid-dependent scorers, the penalty of    *)
(* ScoreCandidates, and Match's selection of the best candidate.           *)
(*                                                                         *)
(* Real-valued quantities (float/double in the source) are fixed-point     *)
(* integers with Scale units per 1.0; every division truncates.  Grid      *)
(* cell indices, offsets and counts are plain integers (the int of the     *)
(* source; the model's values stay far from 32-bit overflow).              *)
(***************************************************************************)
EXTENDS Integers, Sequences, FiniteSets, TLC

VARIABLES
    gen_pc,        \* SpecGen: "input" before, "done" after the call
    gen_sp,        \* SpecGen: the SearchParameters handed to the generator
    gen_out,       \* SpecGen: what GenerateExhaustiveSearchCandidates produced
    grid,          \* the Grid2D every Match call reads (shared, const reference)
    options,       \* options_ of the matcher (shared, const member)
    call,          \* per caller: the arguments of its Match call
    pc,            \* per caller: where its Match call stands
    search_parameters,  \* per caller: Match's local search_parameters
    discrete_scans,     \* per caller: Match's local discrete_scans
    candidates,    \* per candidate store: Match's local candidates
    next_candidate,     \* per caller: position of ScoreCandidates' loop
    visited,       \* per caller: the indices ScoreCandidates' loop body has run for
    raw_score,     \* per caller: what ComputeCandidateScore returned, per index
    pose_estimate, \* per caller: *pose_estimate, the output pose
    result         \* per caller: Match's return value

gen_vars == <<gen_pc, gen_sp, gen_out>>

match_vars == <<grid, options, call, pc, search_parameters, discrete_scans, candidates,
                next_candidate, visited, raw_score, pose_estimate, result>>

vars == <<gen_pc, gen_sp, gen_out, grid, options, call, pc, search_parameters,
          discrete_scans, candidates, next_candidate, visited, raw_score,
          pose_estimate, result>>

(***************************************************************************)
(* Bounds of the model.                                                    *)
(***************************************************************************)
Scale == 100          \* fixed-point units per 1.0
MaxOffset == 1        \* SpecGen: linear bounds are drawn from -MaxOffset..MaxOffset
MaxScans == 2         \* SpecGen: num_scans is drawn from 0..MaxScans
GridMax == 2          \* the grid's cells are (0..GridMax) x (0..GridMax)
MaxWindow == 1        \* the linear search window is 0..MaxWindow cells

Abs(v) == IF v < 0 THEN -v ELSE v
Min(a, b) == IF a < b THEN a ELSE b
Max(a, b) == IF a > b THEN a ELSE b

(***************************************************************************)
(* Candidate2D: the candidate built from (scan_index, x_index_offset,      *)
(* y_index_offset) and the search parameters; x, y are the offsets times   *)
(* the resolution, orientation the rotation assigned to scan_index.  The   *)
(* score field holds nothing meaningful until ScoreCandidates writes it.   *)
(***************************************************************************)
Candidate2D(scan_index, x_index_offset, y_index_offset, sp) ==
    [scan_index     |-> scan_index,
     x_index_offset |-> x_index_offset,
     y_index_offset |-> y_index_offset,
     x              |-> x_index_offset * sp.resolution,
     y              |-> y_index_offset * sp.resolution,
     orientation    |-> (scan_index - sp.num_angular_perturbations)
                            * sp.angular_perturbation_step_size,
     score          |-> 0]

\* linear_bounds[scan_index] of the source (0-based) is linear_bounds[scan_index + 1] here.
BoundsOf(sp, scan_index) == sp.linear_bounds[scan_index + 1]

(***************************************************************************)
(* GenerateExhaustiveSearchCandidates, lines 97-110: the precomputed       *)
(* count.                                                                  *)
(***************************************************************************)
NumLinearXCandidates_noPlusOne(b) == b.max_x - b.min_x

NumLinearXCandidates(b) == b.max_x - b.min_x + 1

NumLinearYCandidates(b) == b.max_y - b.min_y + 1

RECURSIVE NumCandidatesLoop(_, _, _)
NumCandidatesLoop(sp, scan_index, num_candidates) ==
    IF scan_index = sp.num_scans
    THEN num_candidates
    ELSE NumCandidatesLoop(sp, scan_index + 1,
             num_candidates
               + NumLinearXCandidates(BoundsOf(sp, scan_index))
                 * NumLinearYCandidates(BoundsOf(sp, scan_index)))

(***************************************************************************)
(* Lines 112-129: the three nested loops, innermost first.  Each yields    *)
(* the candidates its remaining iterations emplace_back, in order.         *)
(***************************************************************************)
YLoopContinues_strict(y_index_offset, b) == y_index_offset < b.max_y

YLoopContinues(y_index_offset, b) == y_index_offset <= b.max_y

RECURSIVE YLoop(_, _, _, _)
YLoop(sp, scan_index, x_index_offset, y_index_offset) ==
    IF YLoopContinues(y_index_offset, BoundsOf(sp, scan_index))
    THEN <<Candidate2D(scan_index, x_index_offset, y_index_offset, sp)>>
           \o YLoop(sp, scan_index, x_index_offset, y_index_offset + 1)
    ELSE <<>>

RECURSIVE XLoop(_, _, _)
XLoop(sp, scan_index, x_index_offset) ==
    IF x_index_offset <= BoundsOf(sp, scan_index).max_x
    THEN YLoop(sp, scan_index, x_index_offset, BoundsOf(sp, scan_index).min_y)
           \o XLoop(sp, scan_index, x_index_offset + 1)
    ELSE <<>>

RECURSIVE ScanLoop(_, _)
ScanLoop(sp, scan_index) ==
    IF scan_index = sp.num_scans
    THEN <<>>
    ELSE XLoop(sp, scan_index, BoundsOf(sp, scan_index).min_x)
           \o ScanLoop(sp, scan_index + 1)

(***************************************************************************)
(* The whole function.  outcome is "ok" when it returns, "length_error"    *)
(* when reserve() is handed a negative count (converted to a huge size_t), *)
(* "check_failed" when CHECK_EQ(candidates.size(), num_candidates) fires.  *)
(* candidates is the list as the loops built it.                           *)
(***************************************************************************)
GenerateExhaustiveSearchCandidates(sp) ==
    LET num_candidates == NumCandidatesLoop(sp, 0, 0)
        cands == ScanLoop(sp, 0)
    IN  [num_candidates |-> num_candidates,
         candidates     |-> IF num_candidates < 0 THEN <<>> ELSE cands,
         outcome        |-> IF num_candidates < 0 THEN "length_error"
                            ELSE IF Len(cands) # num_candidates THEN "check_failed"
                            ELSE "ok"]

(***************************************************************************)
(* SpecGen: the generator applied to search parameters drawn from a        *)
(* bounded family.  The first rotation's bounds b are any four integers of *)
(* -MaxOffset..MaxOffset (inverted ranges included); each rotation's       *)
(* bounds are b with max_x lowered by 0, 1 or 3 cells, chosen per          *)
(* rotation, so the bounds differ between rotations.                       *)
(***************************************************************************)
OffsetRange == (-MaxOffset)..MaxOffset

LinearBoundsSet ==
    [min_x : OffsetRange, max_x : OffsetRange, min_y : OffsetRange, max_y : OffsetRange]

ShrinkSteps == {0, 1, 3}

GenSearchParameters(n, b, shrink) ==
    [num_scans                      |-> n,
     linear_bounds                  |-> [k \in 1..n |-> [b EXCEPT !.max_x = b.max_x - shrink[k]]],
     resolution                     |-> Scale \div 2,
     num_angular_perturbations      |-> n \div 2,
     angular_perturbation_step_size |-> Scale \div 4]

NoGenOutput == [num_candidates |-> 0, candidates |-> <<>>, outcome |-> "none"]

(***************************************************************************)
(* The grid (ProbabilityGrid, TSDF2D behind Grid2D) as the matcher sees    *)
(* it: a variant tag, a resolution, and per-cell values over the cells     *)
(* (0..GridMax) x (0..GridMax).  Probabilities, weights, distances and the *)
(* maximum correspondence cost are fixed-point.                            *)
(***************************************************************************)
Cells == (0..GridMax) \X (0..GridMax)

Resolution == Scale \div 2

AngularStep == Scale \div 4

GetGridType(g) == g.type

\* A cell outside the grid reads as the minimum probability.
GetProbability(g, cell) ==
    IF cell \in DOMAIN g.probability THEN g.probability[cell] ELSE Scale \div 10

\* A cell outside the grid reads as unobserved: weight zero.
GetTSDAndWeight(g, cell) ==
    IF cell \in DOMAIN g.tsd
    THEN <<g.tsd[cell], g.weight[cell]>>
    ELSE <<-g.max_correspondence_cost, 0>>

GetMaxCorrespondenceCost(g) == g.max_correspondence_cost

(***************************************************************************)
(* ComputeCandidateScore(const ProbabilityGrid&, ...), lines 62-76.        *)
(* With an empty discrete scan the division is 0.f / 0.f, a NaN, and       *)
(* CHECK_GT(NaN, 0.f) fails.                                               *)
(***************************************************************************)
RECURSIVE ProbabilityLoop(_, _, _, _, _, _)
ProbabilityLoop(g, discrete_scan, x_index_offset, y_index_offset, i, candidate_score) ==
    IF i > Len(discrete_scan)
    THEN candidate_score
    ELSE ProbabilityLoop(g, discrete_scan, x_index_offset, y_index_offset, i + 1,
             candidate_score
               + GetProbability(g, <<discrete_scan[i][1] + x_index_offset,
                                     discrete_scan[i][2] + y_index_offset>>))

ComputeCandidateScoreProbabilityGrid(g, discrete_scan, x_index_offset, y_index_offset) ==
    LET sum == ProbabilityLoop(g, discrete_scan, x_index_offset, y_index_offset, 1, 0)
    IN  IF Len(discrete_scan) = 0
        THEN [score |-> 0, check_ok |-> FALSE]
        ELSE LET candidate_score == sum \div Len(discrete_scan)
             IN  [score |-> candidate_score, check_ok |-> candidate_score > 0]

(***************************************************************************)
(* ComputeCandidateScore(const TSDF2D&, ...), lines 39-60.                 *)
(* candidate_score accumulates normalized_tsd_score * weight (kept at      *)
(* Scale * Scale units, so the one truncation is the final division).      *)
(***************************************************************************)
NormalizedTsdScore(g, tsd) ==
    ((GetMaxCorrespondenceCost(g) - Abs(tsd)) * Scale) \div GetMaxCorrespondenceCost(g)

RECURSIVE TSDFLoop(_, _, _, _, _, _)
TSDFLoop(g, discrete_scan, x_index_offset, y_index_offset, i, acc) ==
    IF i > Len(discrete_scan)
    THEN acc
    ELSE LET tsd_and_weight ==
                 GetTSDAndWeight(g, <<discrete_scan[i][1] + x_index_offset,
                                      discrete_scan[i][2] + y_index_offset>>)
             weight == tsd_and_weight[2]
         IN  TSDFLoop(g, discrete_scan, x_index_offset, y_index_offset, i + 1,
                 [candidate_score |-> acc.candidate_score
                                        + NormalizedTsdScore(g, tsd_and_weight[1]) * weight,
                  summed_weight   |-> acc.summed_weight + weight])

SummedWeightIsZero_never(summed_weight) == FALSE

SummedWeightIsZero(summed_weight) == summed_weight = 0

ComputeCandidateScoreTSDF(g, discrete_scan, x_index_offset, y_index_offset) ==
    LET acc == TSDFLoop(g, discrete_scan, x_index_offset, y_index_offset, 1,
                        [candidate_score |-> 0, summed_weight |-> 0])
    IN  IF SummedWeightIsZero(acc.summed_weight)
        THEN [score |-> 0, check_ok |-> TRUE]
        ELSE IF acc.summed_weight = 0
        THEN [score |-> 0, check_ok |-> FALSE]     \* x / 0.f: NaN or inf, never a checked score
        ELSE LET candidate_score == acc.candidate_score \div acc.summed_weight
             IN  [score |-> candidate_score, check_ok |-> candidate_score >= 0]

(***************************************************************************)
(* ScoreCandidates, lines 228-233: the penalty factor                      *)
(*   exp(-Pow2(hypot(x, y) * translation_delta_cost_weight                 *)
(*             + |orientation| * rotation_delta_cost_weight)).             *)
(* Hypot is the truncated square root; ExpNeg(u), u >= 0, is               *)
(* 1 / (1 + u + u^2/2 + u^3/6) in fixed point: 1.0 at u = 0, decreasing,   *)
(* and 0 once u is large, as exp underflows.                               *)
(***************************************************************************)
Hypot(x, y) == LET r == CHOOSE r \in 0..(Abs(x) + Abs(y)) :
                              r * r <= x * x + y * y /\ (r + 1) * (r + 1) > x * x + y * y
               IN  r

Pow2(v) == (v * v) \div Scale

ExpNeg(u) ==
    (Scale * Scale)
      \div (Scale + u + (u * u) \div (2 * Scale) + (((u * u) \div Scale) * u) \div (6 * Scale))

PenaltyFactor_growing(opts, candidate) ==
    Scale + Pow2((Hypot(candidate.x, candidate.y) * opts.translation_delta_cost_weight
                   + Abs(candidate.orientation) * opts.rotation_delta_cost_weight)
                 \div Scale)

PenaltyFactor(opts, candidate) ==
    ExpNeg(Pow2((Hypot(candidate.x, candidate.y) * opts.translation_delta_cost_weight
                   + Abs(candidate.orientation) * opts.rotation_delta_cost_weight)
                \div Scale))

(***************************************************************************)
(* ScoreCandidates, lines 211-234: one pass of the loop body for one       *)
(* candidate.  The switch has no default: with any other variant tag no    *)
(* scorer runs and the penalty multiplies whatever the score field held    *)
(* (indeterminate).  check_ok is FALSE when a scorer's CHECK fired.        *)
(***************************************************************************)
ScoreCandidate(g, scans, opts, candidate, indeterminate) ==
    LET discrete_scan == scans[candidate.scan_index + 1]
        computed ==
            CASE GetGridType(g) = "PROBABILITY_GRID" ->
                   ComputeCandidateScoreProbabilityGrid(
                       g, discrete_scan, candidate.x_index_offset, candidate.y_index_offset)
              [] GetGridType(g) = "TSDF" ->
                   ComputeCandidateScoreTSDF(
                       g, discrete_scan, candidate.x_index_offset, candidate.y_index_offset)
              [] OTHER -> [score |-> indeterminate, check_ok |-> TRUE]
    IN  [candidate |-> [candidate EXCEPT
                          !.score = (computed.score * PenaltyFactor(opts, candidate)) \div Scale],
         raw       |-> computed.score,
         check_ok  |-> computed.check_ok]

\* The range-for of line 211 ends after the last candidate, never earlier.
ScoreLoopDone_skipLast(next, cands) == next >= Len(cands)

ScoreLoopDone(next, cands) == next > Len(cands)

(***************************************************************************)
(* Match, lines 185-192: std::max_element (the first largest element       *)
(* under operator<, which compares scores), and the output pose.           *)
(***************************************************************************)
CandidateLess(a, b) == a.score < b.score

RECURSIVE MaxElementLoop(_, _, _)
MaxElementLoop(cands, first, largest) ==
    IF first > Len(cands)
    THEN largest
    ELSE MaxElementLoop(cands, first + 1,
                        IF CandidateLess(cands[largest], cands[first]) THEN first ELSE largest)

RECURSIVE LastMaxLoop(_, _, _)
LastMaxLoop(cands, first, largest) ==
    IF first > Len(cands)
    THEN largest
    ELSE LastMaxLoop(cands, first + 1,
                     IF CandidateLess(cands[first], cands[largest]) THEN largest ELSE first)

RECURSIVE MinElementLoop(_, _, _)
MinElementLoop(cands, first, smallest) ==
    IF first > Len(cands)
    THEN smallest
    ELSE MinElementLoop(cands, first + 1,
                        IF CandidateLess(cands[first], cands[smallest]) THEN first ELSE smallest)

MaxElement_last(cands) == LastMaxLoop(cands, 2, 1)

MaxElement_min(cands) == MinElementLoop(cands, 2, 1)

MaxElement(cands) == MaxElementLoop(cands, 2, 1)

ComposePose(initial_pose_estimate, best_candidate) ==
    [x        |-> initial_pose_estimate.x + best_candidate.x,
     y        |-> initial_pose_estimate.y + best_candidate.y,
     rotation |-> initial_pose_estimate.rotation + best_candidate.orientation]

(***************************************************************************)
(* Match's collaborators whose code lies outside this file, after their    *)
(* specification: SearchParameters (num_scans = 2 * ceil(angular window /  *)
(* angular step) + 1; per rotation the linear window in cells, clamped so  *)
(* that every shifted scan point stays inside the grid) and the rotated,   *)
(* discretized scans (one per rotation index).  A point cloud is either    *)
(* empty, one point at the sensor origin, or the origin and one point a    *)
(* cell away whose cell turns with the rotation.                           *)
(***************************************************************************)
CeilDiv(a, b) == -((-a) \div b)

Direction(a) ==
    IF a <= -1 THEN <<1, -1>> ELSE IF a = 0 THEN <<1, 0>> ELSE IF a = 1 THEN <<1, 1>> ELSE <<0, 1>>

BaseCell(initial_pose_estimate, resolution) ==
    <<(initial_pose_estimate.x + resolution \div 2) \div resolution,
      (initial_pose_estimate.y + resolution \div 2) \div resolution>>

DiscreteScan(point_cloud, initial_pose_estimate, resolution, a) ==
    LET base == BaseCell(initial_pose_estimate, resolution)
    IN  CASE point_cloud = "empty"  -> <<>>
          [] point_cloud = "origin" -> <<base>>
          [] OTHER -> <<base, <<base[1] + Direction(a)[1], base[2] + Direction(a)[2]>>>>

DiscretizeScans(point_cloud, initial_pose_estimate, resolution, num_angular_perturbations) ==
    [k \in 1..(2 * num_angular_perturbations + 1) |->
        DiscreteScan(point_cloud, initial_pose_estimate, resolution,
                     initial_pose_estimate.rotation \div AngularStep
                       + (k - 1 - num_angular_perturbations))]

SetMin(S) == CHOOSE v \in S : \A w \in S : v <= w

SetMax(S) == CHOOSE v \in S : \A w \in S : v >= w

ClampedBounds(n, discrete_scan) ==
    IF Len(discrete_scan) = 0
    THEN [min_x |-> -n, max_x |-> n, min_y |-> -n, max_y |-> n]
    ELSE LET xs == {discrete_scan[i][1] : i \in 1..Len(discrete_scan)}
             ys == {discrete_scan[i][2] : i \in 1..Len(discrete_scan)}
         IN  [min_x |-> Max(-n, -SetMin(xs)), max_x |-> Min(n, GridMax - SetMax(xs)),
              min_y |-> Max(-n, -SetMin(ys)), max_y |-> Min(n, GridMax - SetMax(ys))]

SearchParameters(linear_search_window, angular_search_window, scans, resolution) ==
    LET num_angular_perturbations == CeilDiv(angular_search_window, AngularStep)
        num_linear_perturbations == CeilDiv(linear_search_window, resolution)
    IN  [num_scans                      |-> 2 * num_angular_perturbations + 1,
         linear_bounds                  |->
             [k \in 1..(2 * num_angular_perturbations + 1) |->
                 ClampedBounds(num_linear_perturbations, scans[k])],
         resolution                     |-> resolution,
         num_angular_perturbations      |-> num_angular_perturbations,
         angular_perturbation_step_size |-> AngularStep]

(***************************************************************************)
(* The grids of the model.                                                 *)
(***************************************************************************)
MakeGrid(type, probability, tsd, weight) ==
    [type |-> type, resolution |-> Resolution, probability |-> probability,
     tsd |-> tsd, weight |-> weight, max_correspondence_cost |-> Scale \div 2]

NoCells == [c \in Cells |-> 0]

Clip(v, lo, hi) == Max(lo, Min(hi, v))

ProbabilityGrids ==
    { MakeGrid("PROBABILITY_GRID", [c \in Cells |-> (6 * Scale) \div 10], NoCells, NoCells),
      MakeGrid("PROBABILITY_GRID",
               [c \in Cells |-> IF c = <<1, 1>> THEN (9 * Scale) \div 10 ELSE Scale \div 10],
               NoCells, NoCells),
      MakeGrid("PROBABILITY_GRID",
               [c \in Cells |-> IF c[1] = 1 THEN (9 * Scale) \div 10 ELSE Scale \div 10],
               NoCells, NoCells) }

SurfaceTsd == [c \in Cells |-> Clip((c[1] - 1) * (Scale \div 4), -(Scale \div 2), Scale \div 2)]

TSDFGrids ==
    { MakeGrid("TSDF", NoCells, SurfaceTsd, NoCells),
      MakeGrid("TSDF", NoCells, SurfaceTsd,
               [c \in Cells |-> IF c[2] <= 1 THEN (c[1] + 1) * Scale ELSE 0]) }

UnknownGrids == { MakeGrid("UNKNOWN", NoCells, NoCells, NoCells) }

GridSet == ProbabilityGrids \cup TSDFGrids \cup UnknownGrids

\* <<translation_delta_cost_weight, rotation_delta_cost_weight>>: none, both moderate,
\* a negative one, and one large enough for the penalty factor to underflow.
WeightPairs ==
    { <<0, 0>>, <<Scale \div 2, Scale \div 2>>, <<-(Scale \div 2), Scale \div 2>>,
      <<4 * Scale, 0>> }

OptionsSet ==
    { [linear_search_window          |-> k * Resolution,
       angular_search_window         |-> a,
       translation_delta_cost_weight |-> w[1],
       rotation_delta_cost_weight    |-> w[2]] :
        k \in 0..MaxWindow, a \in {0, AngularStep}, w \in WeightPairs }

InitialPoses ==
    [x : {0, Resolution}, y : {Resolution}, rotation : {0, AngularStep}]

PointClouds == {"empty", "origin", "arm"}

\* What an uninitialised score field may hold, fixed per call.
IndeterminateScores == {0, Scale \div 2}

NoPose == [x |-> 0, y |-> 0, rotation |-> 0]

\* The calls: every pose and point cloud with an output pose to write to, and one call
\* whose pose_estimate is null.
CallSet(g) ==
    [initial_pose_estimate : InitialPoses,
     point_cloud           : PointClouds,
     has_pose_estimate     : {TRUE},
     indeterminate         : IF GetGridType(g) \in {"PROBABILITY_GRID", "TSDF"}
                             THEN {0} ELSE IndeterminateScores]
    \cup { [initial_pose_estimate |-> NoPose, point_cloud |-> "origin",
            has_pose_estimate |-> FALSE, indeterminate |-> 0] }

(***************************************************************************)
(* The callers.  Each Match call keeps its candidates in a local vector    *)
(* of its own (line 180).                                                  *)
(***************************************************************************)
Procs == {"a", "b"}

CandidateStore_member(p) == "a"

CandidateStore(p) == p

NoSearchParameters ==
    [num_scans |-> 0, linear_bounds |-> <<>>, resolution |-> Resolution,
     num_angular_perturbations |-> 0, angular_perturbation_step_size |-> AngularStep]

NoCall == [initial_pose_estimate |-> NoPose, point_cloud |-> "empty",
           has_pose_estimate |-> FALSE, indeterminate |-> 0]

MatchIdle ==
    /\ grid = MakeGrid("UNKNOWN", NoCells, NoCells, NoCells)
    /\ options = [linear_search_window |-> 0, angular_search_window |-> 0,
                  translation_delta_cost_weight |-> 0, rotation_delta_cost_weight |-> 0]
    /\ call = [p \in Procs |-> NoCall]
    /\ pc = [p \in Procs |-> "off"]
    /\ search_parameters = [p \in Procs |-> NoSearchParameters]
    /\ discrete_scans = [p \in Procs |-> <<>>]
    /\ candidates = [p \in Procs |-> <<>>]
    /\ next_candidate = [p \in Procs |-> 1]
    /\ visited = [p \in Procs |-> {}]
    /\ raw_score = [p \in Procs |-> <<>>]
    /\ pose_estimate = [p \in Procs |-> NoPose]
    /\ result = [p \in Procs |-> 0]

GenIdle ==
    /\ gen_pc = "off"
    /\ gen_sp = NoSearchParameters
    /\ gen_out = NoGenOutput

GenInit ==
    /\ gen_pc = "input"
    /\ \E n \in 0..MaxScans, b \in LinearBoundsSet :
         \E shrink \in [1..n -> ShrinkSteps] :
            gen_sp = GenSearchParameters(n, b, shrink)
    /\ gen_out = NoGenOutput
    /\ MatchIdle

Generate ==
    /\ gen_pc = "input"
    /\ gen_out' = GenerateExhaustiveSearchCandidates(gen_sp)
    /\ gen_pc' = "done"
    /\ UNCHANGED gen_sp
    /\ UNCHANGED match_vars

SpecGen == GenInit /\ [][Generate]_vars

(***************************************************************************)
(* Match, lines 146-193, one caller p.                                     *)
(***************************************************************************)
\* Lines 150-178: the null check, the search parameters, the discretized scans.
MatchSetup(p) ==
    /\ pc[p] = "start"
    /\ IF ~call[p].has_pose_estimate
       THEN /\ pc' = [pc EXCEPT ![p] = "fatal_pose_estimate"]
            /\ UNCHANGED <<search_parameters, discrete_scans>>
       ELSE LET scans == DiscretizeScans(call[p].point_cloud, call[p].initial_pose_estimate,
                                         grid.resolution,
                                         CeilDiv(options.angular_search_window, AngularStep))
            IN  /\ discrete_scans' = [discrete_scans EXCEPT ![p] = scans]
                /\ search_parameters' =
                       [search_parameters EXCEPT
                          ![p] = SearchParameters(options.linear_search_window,
                                                  options.angular_search_window,
                                                  scans, grid.resolution)]
                /\ pc' = [pc EXCEPT ![p] = "generate"]
    /\ UNCHANGED <<grid, options, call, candidates, next_candidate, visited, raw_score,
                   pose_estimate, result>>
    /\ UNCHANGED gen_vars

\* Lines 180-181.
MatchGenerate(p) ==
    /\ pc[p] = "generate"
    /\ LET out == GenerateExhaustiveSearchCandidates(search_parameters[p])
       IN  IF out.outcome = "ok"
           THEN /\ candidates' = [candidates EXCEPT ![CandidateStore(p)] = out.candidates]
                /\ pc' = [pc EXCEPT ![p] = "score"]
           ELSE /\ pc' = [pc EXCEPT ![p] = "fatal_generate"]
                /\ UNCHANGED candidates
    /\ next_candidate' = [next_candidate EXCEPT ![p] = 1]
    /\ visited' = [visited EXCEPT ![p] = {}]
    /\ raw_score' = [raw_score EXCEPT ![p] = <<>>]
    /\ UNCHANGED <<grid, options, call, search_parameters, discrete_scans,
                   pose_estimate, result>>
    /\ UNCHANGED gen_vars

\* Line 183, ScoreCandidates: the loop body for the next candidate.
ScoreCandidatesStep(p) ==
    /\ pc[p] = "score"
    /\ ~ScoreLoopDone(next_candidate[p], candidates[CandidateStore(p)])
    /\ next_candidate[p] <= Len(candidates[CandidateStore(p)])
    /\ LET i == next_candidate[p]
           scored == ScoreCandidate(grid, discrete_scans[p], options,
                                    candidates[CandidateStore(p)][i],
                                    call[p].indeterminate)
       IN  IF scored.check_ok
           THEN /\ candidates' = [candidates EXCEPT ![CandidateStore(p)][i] = scored.candidate]
                /\ raw_score' = [raw_score EXCEPT ![p] = Append(raw_score[p], scored.raw)]
                /\ visited' = [visited EXCEPT ![p] = visited[p] \cup {i}]
                /\ next_candidate' = [next_candidate EXCEPT ![p] = i + 1]
                /\ UNCHANGED pc
           ELSE /\ pc' = [pc EXCEPT ![p] = "fatal_score"]
                /\ UNCHANGED <<candidates, raw_score, visited, next_candidate>>
    /\ UNCHANGED <<grid, options, call, search_parameters, discrete_scans,
                   pose_estimate, result>>
    /\ UNCHANGED gen_vars

\* ScoreCandidates returns to Match.
ScoreCandidatesReturn(p) ==
    /\ pc[p] = "score"
    /\ ScoreLoopDone(next_candidate[p], candidates[CandidateStore(p)])
    /\ pc' = [pc EXCEPT ![p] = "scored"]
    /\ UNCHANGED <<grid, options, call, search_parameters, discrete_scans, candidates,
                   next_candidate, visited, raw_score, pose_estimate, result>>
    /\ UNCHANGED gen_vars

\* Lines 185-192.  max_element of an empty range is end(); reading through it is undefined.
MatchSelect(p) ==
    /\ pc[p] = "scored"
    /\ LET cands == candidates[CandidateStore(p)]
       IN  IF Len(cands) = 0
           THEN /\ pc' = [pc EXCEPT ![p] = "undefined"]
                /\ \E any \in IndeterminateScores : result' = [result EXCEPT ![p] = any]
                /\ UNCHANGED pose_estimate
           ELSE LET best_candidate == cands[MaxElement(cands)]
                IN  /\ pose_estimate' =
                           [pose_estimate EXCEPT
                              ![p] = ComposePose(call[p].initial_pose_estimate, best_candidate)]
                    /\ result' = [result EXCEPT ![p] = best_candidate.score]
                    /\ pc' = [pc EXCEPT ![p] = "done"]
    /\ UNCHANGED <<grid, options, call, search_parameters, discrete_scans, candidates,
                   next_candidate, visited, raw_score>>
    /\ UNCHANGED gen_vars

MatchStep(p) ==
    \/ MatchSetup(p)
    \/ MatchGenerate(p)
    \/ ScoreCandidatesStep(p)
    \/ ScoreCandidatesReturn(p)
    \/ MatchSelect(p)

Next == \E p \in Procs : MatchStep(p)

\* One caller.
Init ==
    /\ GenIdle
    /\ grid \in GridSet
    /\ options \in OptionsSet
    /\ \E c \in CallSet(grid) : call = [p \in Procs |-> IF p = "a" THEN c ELSE NoCall]
    /\ pc = [p \in Procs |-> IF p = "a" THEN "start" ELSE "off"]
    /\ search_parameters = [p \in Procs |-> NoSearchParameters]
    /\ discrete_scans = [p \in Procs |-> <<>>]
    /\ candidates = [p \in Procs |-> <<>>]
    /\ next_candidate = [p \in Procs |-> 1]
    /\ visited = [p \in Procs |-> {}]
    /\ raw_score = [p \in Procs |-> <<>>]
    /\ pose_estimate = [p \in Procs |-> NoPose]
    /\ result = [p \in Procs |-> 0]

Spec == Init /\ [][Next]_vars

\* Two callers at once, on different scans against the same grid.
ConcGrids ==
    { g \in GridSet : /\ g.probability[<<1, 1>>] # g.probability[<<0, 0>>]
                      \/ g.weight[<<1, 1>>] # 0 }

ConcOptions ==
    { o \in OptionsSet : /\ o.angular_search_window = 0
                         /\ o.translation_delta_cost_weight = Scale \div 2
                         /\ o.rotation_delta_cost_weight = Scale \div 2 }

ConcCalls(g) ==
    { c \in CallSet(g) : /\ c.has_pose_estimate
                         /\ c.point_cloud # "empty"
                         /\ c.initial_pose_estimate.rotation = 0 }

InitConc ==
    /\ GenIdle
    /\ grid \in ConcGrids
    /\ options \in ConcOptions
    /\ call \in [Procs -> ConcCalls(grid)]
    /\ pc = [p \in Procs |-> "start"]
    /\ search_parameters = [p \in Procs |-> NoSearchParameters]
    /\ discrete_scans = [p \in Procs |-> <<>>]
    /\ candidates = [p \in Procs |-> <<>>]
    /\ next_candidate = [p \in Procs |-> 1]
    /\ visited = [p \in Procs |-> {}]
    /\ raw_score = [p \in Procs |-> <<>>]
    /\ pose_estimate = [p \in Procs |-> NoPose]
    /\ result = [p \in Procs |-> 0]

SpecConc == InitConc /\ [][Next]_vars

(***************************************************************************)
(* Properties of GenerateExhaustiveSearchCandidates (under SpecGen).       *)
(***************************************************************************)
\* The count the claims speak of: the sum over rotation indices of
\* (max_x - min_x + 1) * (max_y - min_y + 1).
RECURSIVE SumOverRotations(_, _)
SumOverRotations(sp, k) ==
    IF k = 0 THEN 0
    ELSE SumOverRotations(sp, k - 1)
           + (sp.linear_bounds[k].max_x - sp.linear_bounds[k].min_x + 1)
             * (sp.linear_bounds[k].max_y - sp.linear_bounds[k].min_y + 1)

\* No rotation's range is inverted by more than the empty range.
WellFormedBounds(sp) ==
    \A k \in 1..sp.num_scans :
        /\ sp.linear_bounds[k].max_x >= sp.linear_bounds[k].min_x - 1
        /\ sp.linear_bounds[k].max_y >= sp.linear_bounds[k].min_y - 1

Triple(c) == <<c.scan_index, c.x_index_offset, c.y_index_offset>>

TriplesInBounds(sp) ==
    { t \in (0..(sp.num_scans - 1)) \X (-(MaxOffset + 3)..MaxOffset + 3)
                                    \X (-(MaxOffset + 3)..MaxOffset + 3) :
        /\ sp.linear_bounds[t[1] + 1].min_x <= t[2]
        /\ t[2] <= sp.linear_bounds[t[1] + 1].max_x
        /\ sp.linear_bounds[t[1] + 1].min_y <= t[3]
        /\ t[3] <= sp.linear_bounds[t[1] + 1].max_y }

LexLess(s, t) ==
    \/ s[1] < t[1]
    \/ s[1] = t[1] /\ s[2] < t[2]
    \/ s[1] = t[1] /\ s[2] = t[2] /\ s[3] < t[3]

ExactlyTheTriplesInOrder(sp, cands) ==
    /\ \A t \in TriplesInBounds(sp) :
          Cardinality({i \in 1..Len(cands) : Triple(cands[i]) = t}) = 1
    /\ \A i \in 1..Len(cands) : Triple(cands[i]) \in TriplesInBounds(sp)
    /\ \A i, j \in 1..Len(cands) : i < j => LexLess(Triple(cands[i]), Triple(cands[j]))

\* C10 as stated: the generator emits exactly one candidate for every triple within the
\* bounds, none outside, in lexicographic order of (scan_index, x_index_offset,
\* y_index_offset).
C10_EnumeratesAlways ==
    gen_pc = "done" => ExactlyTheTriplesInOrder(gen_sp, gen_out.candidates)

\* C10 amended: the same whenever the precomputed count is not negative; when it is,
\* reserve() throws before any candidate is emitted.
C10_EnumeratesUnlessReserveThrows ==
    gen_pc = "done" =>
        IF gen_out.num_candidates >= 0
        THEN ExactlyTheTriplesInOrder(gen_sp, gen_out.candidates)
        ELSE gen_out.outcome = "length_error" /\ gen_out.candidates = <<>>

C10_Witness ==
    /\ gen_pc = "done"
    /\ gen_sp.num_scans = 2
    /\ gen_sp.linear_bounds[1] # gen_sp.linear_bounds[2]
    /\ Len(gen_out.candidates) >= 5
    /\ \E i \in 1..Len(gen_out.candidates) : gen_out.candidates[i].scan_index = 1
    /\ ExactlyTheTriplesInOrder(gen_sp, gen_out.candidates)

(***************************************************************************)
(* Properties of Match and ScoreCandidates (under Spec).                   *)
(***************************************************************************)
PoseOf(initial_pose_estimate, c) ==
    [x        |-> initial_pose_estimate.x + c.x,
     y        |-> initial_pose_estimate.y + c.y,
     rotation |-> initial_pose_estimate.rotation + c.orientation]

FullEnumeration(p) ==
    /\ Len(candidates[p]) = SumOverRotations(search_parameters[p],
                                              search_parameters[p].num_scans)
    /\ \A i \in 1..(Len(candidates[p]) - 1) :
          LexLess(Triple(candidates[p][i]), Triple(candidates[p][i + 1]))

\* C2: Match returns the score of, and writes the pose built from, a maximum-score
\* candidate of the full enumeration: translation = initial translation + (best.x,
\* best.y), rotation = initial rotation composed with best.orientation, and no
\* enumerated candidate scores higher than the returned score.
C2_MatchReturnsMaximum ==
    \A p \in Procs :
        pc[p] = "done" =>
            /\ FullEnumeration(p)
            /\ \E i \in 1..Len(candidates[p]) :
                  /\ result[p] = candidates[p][i].score
                  /\ pose_estimate[p] = PoseOf(call[p].initial_pose_estimate, candidates[p][i])
            /\ \A j \in 1..Len(candidates[p]) : candidates[p][j].score <= result[p]

C2_Witness ==
    \E p \in Procs :
        /\ pc[p] = "done"
        /\ \E i, j \in 1..Len(candidates[p]) :
              /\ candidates[p][j].score < candidates[p][i].score
              /\ candidates[p][1].score < candidates[p][i].score
              /\ result[p] = candidates[p][i].score
              /\ candidates[p][i].x # 0
              /\ candidates[p][i].orientation # 0
              /\ pose_estimate[p] = PoseOf(call[p].initial_pose_estimate, candidates[p][i])

\* C3: every enumerated candidate is scored by ScoreCandidates before selection reads
\* any score: once ScoreCandidates has returned, its loop body has run for every
\* candidate of the full enumeration (no early termination, no pruning), so selection
\* reads no unscored candidate.
C3_AllScoredBeforeSelection ==
    \A p \in Procs :
        pc[p] \in {"scored", "done", "undefined"} =>
            /\ FullEnumeration(p)
            /\ visited[p] = 1..Len(candidates[p])
            /\ Len(raw_score[p]) = Len(candidates[p])

C3_Witness ==
    \E p \in Procs :
        /\ pc[p] = "done"
        /\ search_parameters[p].num_scans = 3
        /\ Len(candidates[p]) >= 9
        /\ visited[p] = 1..Len(candidates[p])

\* C4: when ScoreCandidates runs on a grid whose variant tag is neither
\* PROBABILITY_GRID nor TSDF, the call ends in a fatal failure and no candidate is
\* given a score.
C4_UnknownVariantIsFatal ==
    \A p \in Procs :
        GetGridType(grid) \notin {"PROBABILITY_GRID", "TSDF"} =>
            /\ pc[p] \notin {"scored", "done"}
            /\ visited[p] = {}

\* C5: when several candidates share the maximum score, Match selects the one that
\* comes first in enumeration order (scan_index, then x_index_offset, then
\* y_index_offset).
C5_FirstMaximumSelected ==
    \A p \in Procs :
        pc[p] = "done" =>
            /\ FullEnumeration(p)
            /\ \E i \in 1..Len(candidates[p]) :
                  /\ result[p] = candidates[p][i].score
                  /\ pose_estimate[p] = PoseOf(call[p].initial_pose_estimate, candidates[p][i])
                  /\ \A j \in 1..Len(candidates[p]) :
                        /\ j < i => candidates[p][j].score < candidates[p][i].score
                        /\ j > i => candidates[p][j].score <= candidates[p][i].score

C5_Witness ==
    \E p \in Procs :
        /\ pc[p] = "done"
        /\ \E i, j, k \in 1..Len(candidates[p]) :
              /\ i < j
              /\ k < i
              /\ candidates[p][i].score = result[p]
              /\ candidates[p][j].score = result[p]
              /\ candidates[p][k].score < result[p]
              /\ pose_estimate[p] = PoseOf(call[p].initial_pose_estimate, candidates[p][i])

ShiftedCells(discrete_scan, c) ==
    [i \in 1..Len(discrete_scan) |->
        <<discrete_scan[i][1] + c.x_index_offset, discrete_scan[i][2] + c.y_index_offset>>]

RECURSIVE SumSeq(_, _)
SumSeq(f, n) == IF n = 0 THEN 0 ELSE f[n] + SumSeq(f, n - 1)

WeightSum(g, cells) == SumSeq([i \in 1..Len(cells) |-> g.weight[cells[i]]], Len(cells))

WeightedMatchSum(g, cells) ==
    SumSeq([i \in 1..Len(cells) |->
               g.weight[cells[i]]
                 * (((g.max_correspondence_cost - Abs(g.tsd[cells[i]])) * Scale)
                      \div g.max_correspondence_cost)],
           Len(cells))

CellsOf(p, i) ==
    ShiftedCells(discrete_scans[p][candidates[p][i].scan_index + 1], candidates[p][i])

\* C6: for a signed-distance grid, a candidate's pre-penalty score is 0 when the summed
\* weight of the cells its shifted scan points hit is zero, and otherwise the
\* weight-weighted average of (maxCorrespondenceCost - |signedDistance|) /
\* maxCorrespondenceCost over those cells (truncated), which is not negative; the
\* non-negativity check never fires.
C6_TSDFScore ==
    GetGridType(grid) = "TSDF" =>
        \A p \in Procs :
            /\ pc[p] # "fatal_score"
            /\ \A i \in visited[p] :
                  LET w == WeightSum(grid, CellsOf(p, i))
                      n == WeightedMatchSum(grid, CellsOf(p, i))
                  IN  IF w = 0
                      THEN raw_score[p][i] = 0
                      ELSE /\ raw_score[p][i] >= 0
                           /\ raw_score[p][i] * w <= n
                           /\ n < (raw_score[p][i] + 1) * w

C6_Witness ==
    /\ GetGridType(grid) = "TSDF"
    /\ \E p \in Procs :
          /\ pc[p] = "done"
          /\ \E i, j, k \in visited[p] :
                /\ WeightSum(grid, CellsOf(p, i)) = 0
                /\ Len(CellsOf(p, i)) > 0
                /\ raw_score[p][i] = 0
                /\ WeightSum(grid, CellsOf(p, j)) > 0
                /\ raw_score[p][j] > 0
                /\ raw_score[p][j] < Scale
                /\ \E m \in 1..Len(CellsOf(p, j)) : grid.tsd[CellsOf(p, j)[m]] < 0
                /\ raw_score[p][k] = Scale

UniformProbabilityGrid(g) ==
    /\ GetGridType(g) = "PROBABILITY_GRID"
    /\ \A c \in Cells : g.probability[c] = g.probability[<<0, 0>>]
    /\ 0 < g.probability[<<0, 0>>]
    /\ g.probability[<<0, 0>>] < Scale

\* C7: for a probability grid whose cells all hold the same p, 0 < p < 1, every
\* candidate's pre-penalty score equals p, for every discrete scan and offset, and the
\* strict-positivity check does not fire.
C7_UniformGridScoresP ==
    UniformProbabilityGrid(grid) =>
        \A p \in Procs :
            /\ pc[p] # "fatal_score"
            /\ \A i \in visited[p] : raw_score[p][i] = grid.probability[<<0, 0>>]

HypotSquared(c) == c.x * c.x + c.y * c.y

Farther(c, d) ==
    \/ HypotSquared(c) > HypotSquared(d) /\ Abs(c.orientation) = Abs(d.orientation)
    \/ HypotSquared(c) = HypotSquared(d) /\ Abs(c.orientation) > Abs(d.orientation)

ScoredByAScorer == GetGridType(grid) \in {"PROBABILITY_GRID", "TSDF"}

\* C8 as stated: with the raw score held fixed, a candidate with larger hypot(x, y), or
\* with larger |orientation|, gets a strictly smaller final score, for every configured
\* weight and every raw score.
C8_StrictlySmaller ==
    ScoredByAScorer =>
      \A p \in Procs :
        \A i, j \in visited[p] :
            (/\ raw_score[p][i] = raw_score[p][j]
             /\ Farther(candidates[p][i], candidates[p][j]))
                => candidates[p][i].score < candidates[p][j].score

\* C8 amended: with both weights not negative, such a candidate never gets a larger
\* final score (it gets an equal one when the weights or the raw score are zero, or
\* when the difference is lost to rounding or underflow).
C8_NeverLarger ==
    (/\ ScoredByAScorer
     /\ options.translation_delta_cost_weight >= 0
     /\ options.rotation_delta_cost_weight >= 0) =>
      \A p \in Procs :
        \A i, j \in visited[p] :
            (/\ raw_score[p][i] = raw_score[p][j]
             /\ Farther(candidates[p][i], candidates[p][j]))
                => candidates[p][i].score <= candidates[p][j].score

C8_Witness ==
    /\ ScoredByAScorer
    /\ options.translation_delta_cost_weight > 0
    /\ options.rotation_delta_cost_weight > 0
    /\ \E p \in Procs :
          \E i, j, k \in visited[p] :
             /\ raw_score[p][i] = raw_score[p][j]
             /\ raw_score[p][i] = raw_score[p][k]
             /\ HypotSquared(candidates[p][i]) > HypotSquared(candidates[p][j])
             /\ Abs(candidates[p][i].orientation) = Abs(candidates[p][j].orientation)
             /\ candidates[p][i].score < candidates[p][j].score
             /\ HypotSquared(candidates[p][k]) = HypotSquared(candidates[p][j])
             /\ Abs(candidates[p][k].orientation) > Abs(candidates[p][j].orientation)
             /\ candidates[p][k].score < candidates[p][j].score

(***************************************************************************)
(* Concurrent Match calls (under SpecConc).                                *)
(***************************************************************************)
RECURSIVE ScoreAllAlone(_, _, _, _, _, _)
ScoreAllAlone(g, scans, opts, cands, i, indeterminate) ==
    IF i > Len(cands)
    THEN [ok |-> TRUE, cands |-> cands]
    ELSE LET scored == ScoreCandidate(g, scans, opts, cands[i], indeterminate)
         IN  IF scored.check_ok
             THEN ScoreAllAlone(g, scans, opts, [cands EXCEPT ![i] = scored.candidate],
                                i + 1, indeterminate)
             ELSE [ok |-> FALSE, cands |-> cands]

\* What one Match call on (g, opts, c) yields when nothing else runs.
MatchAlone(g, opts, c) ==
    LET scans == DiscretizeScans(c.point_cloud, c.initial_pose_estimate, g.resolution,
                                 CeilDiv(opts.angular_search_window, AngularStep))
        sp == SearchParameters(opts.linear_search_window, opts.angular_search_window,
                               scans, g.resolution)
        out == GenerateExhaustiveSearchCandidates(sp)
        scored == ScoreAllAlone(g, scans, opts, out.candidates, 1, c.indeterminate)
        failed == [outcome |-> "fatal", pose |-> NoPose, score |-> 0]
    IN  IF ~c.has_pose_estimate \/ out.outcome # "ok" \/ ~scored.ok \/ Len(scored.cands) = 0
        THEN failed
        ELSE [outcome |-> "done",
              pose    |-> PoseOf(c.initial_pose_estimate,
                                 scored.cands[MaxElementLoop(scored.cands, 2, 1)]),
              score   |-> scored.cands[MaxElementLoop(scored.cands, 2, 1)].score]

\* C9: Match writes only its own candidate list and its own output pose: every step of
\* any interleaving of concurrent Match calls leaves the grid, the call arguments (the
\* point clouds) and the matcher's options unchanged, and a call that returns has
\* produced the pose and score it produces when run alone.
C9_ConcurrentCallsIsolated ==
    [][/\ grid' = grid
       /\ options' = options
       /\ call' = call
       /\ \A p \in Procs :
             pc'[p] \in {"done", "fatal_pose_estimate", "fatal_generate", "fatal_score",
                         "undefined"} =>
                 LET alone == MatchAlone(grid, options, call[p])
                 IN  /\ (pc'[p] = "done") = (alone.outcome = "done")
                     /\ pc'[p] = "done" =>
                           /\ pose_estimate'[p] = alone.pose
                           /\ result'[p] = alone.score]_vars

C9_Witness ==
    /\ call["a"] # call["b"]
    /\ pc["a"] = "done"
    /\ pc["b"] = "done"
    /\ Len(candidates["a"]) >= 4
    /\ Len(candidates["b"]) >= 4
    /\ candidates["a"] # candidates["b"]
    /\ pose_estimate["a"] # pose_estimate["b"]
    /\ result["a"] > 0
    /\ result["b"] > 0


====
